---- MODULE Spec2Model ----
(***************************************************************************)
(* A model of caldp's counting logger (caldp/log.py) and of its output     *)
(* packaging (caldp/file_ops.py).                                          *)
(*                                                                         *)
(*   SpecLog     the module-level logger API acting on THE_LOGGER, with     *)
(*               levels on both sides of each threshold the code tests     *)
(*   SpecLevels  set_verbose and get_verbose over every level of -5..102   *)
(*   SpecScope   the scoped override old = set_verbose(L); ...;            *)
(*               set_verbose(old) around other calls                       *)
(*   SpecImport  the construction of THE_LOGGER at import, and of a second *)
(*               CaldpLogger afterwards, under each CALDP_VERBOSITY value  *)
(*   SpecPkg     tar_outputs, statement by statement, on a small file tree *)
(*   SpecUpload  SpecPkg, and upload_tar called on its own                 *)
(*   SpecProg    concurrent calls of one ProgressPercentage instance       *)
(***************************************************************************)
EXTENDS Integers, Sequences, FiniteSets, TLC

VARIABLES
    proc,      \* "unloaded" | "running" | "import_failed" | "exited"
    exitcode,  \* the process's exit status once proc = "exited", else 0
    env,       \* the value of CALDP_VERBOSITY in os.environ
    lg,        \* THE_LOGGER: counters, verbose_level, eol_pending, and out,
               \* the messages the most recent operation handed to its sinks
    second,    \* a CaldpLogger constructed after import, or NoLogger
    lastOp,    \* the most recent call: [op, arg, ret, raised]
    scope,     \* a caller's scoped override: old = set_verbose(L); ...;
               \* set_verbose(old), with the level in effect before it began
    calls,     \* history: invocations of error/warn/info since the counters
               \* were last zero, and whether a counter was changed otherwise
    cwd,       \* the process working directory
    fs,        \* the file tree under each output directory
    remote,    \* the objects the storage client holds
    pkg,       \* the frame of the tar_outputs call in progress
    runs,      \* the number of tar_outputs calls started
    prog,      \* the ProgressPercentage instance: _size, _seen_so_far, _lock
    thr,       \* each transfer thread's position inside __call__
    reports,   \* the lines written by __call__, oldest first
    issued    \* the increments passed to __call__ so far, in call order

vars == <<proc, exitcode, env, lg, second, lastOp, scope, calls, cwd, fs, remote,
          pkg, runs, prog, thr, reports, issued>>

logVars == <<proc, exitcode, env, lg, second, lastOp, scope, calls>>
pkgVars == <<cwd, fs, remote, pkg, runs>>
progVars == <<prog, thr, reports, issued>>

\* the packaging and progress variables while they play no part
IdlePkg ==
    /\ cwd = <<"work">>
    /\ fs = <<>>
    /\ remote = {}
    /\ pkg = <<>>
    /\ runs = 0

IdleProg ==
    /\ prog = <<>>
    /\ thr = <<>>
    /\ reports = <<>>
    /\ issued = <<>>

(***************************************************************************)
(* Bounds of the model.                                                    *)
(***************************************************************************)
\* the logger's calls stop once the four counters sum to MaxCount
MaxCount == 3
\* the number of tar_outputs calls in one behaviour
MaxRuns == 2
\* the number of transfer threads calling one ProgressPercentage
MaxThreads == 3

(***************************************************************************)
(* caldp/log.py                                                            *)
(***************************************************************************)
DEFAULT_VERBOSITY_LEVEL == 50

\* the levels set_verbose accepts
ValidLevels == -3 .. 100

\* Arguments of set_verbose: integers in and around the accepted range, and
\* the two booleans (a Python bool is an int: True == 1, False == 0).
IntArg(n) == [kind |-> "int", val |-> n]
BoolArg(b) == [kind |-> "bool", val |-> IF b THEN 1 ELSE 0]
NoArg == [kind |-> "none", val |-> 0]
LevelArgs == {IntArg(n) : n \in (-5 .. 102)} \cup {BoolArg(b) : b \in BOOLEAN}

\* The same around each threshold the code compares a level with.
FewLevelArgs ==
    {IntArg(n) : n \in {-4, -3, -2, -1, 0, 1, 49, 50, 51, 60, 100, 101}}
        \cup {BoolArg(b) : b \in BOOLEAN}

\* The verbosity keyword of verbose and verbose_warning: absent, or a number.
VerbosityArgs == {NoArg} \cup {IntArg(n) : n \in {-3, 0, 49, 50, 51, 60, 100}}

\* CALDP_VERBOSITY: unset, the text of an integer, or text int() rejects.
EnvUnset == [kind |-> "unset", val |-> 0]
EnvInt(n) == [kind |-> "int", val |-> n]
EnvBad == [kind |-> "bad", val |-> 0]
EnvValues == {EnvUnset, EnvBad} \cup {EnvInt(n) : n \in {-4, -3, -2, -1, 0, 1, 50, 60, 100, 200}}

\* The positional arguments of a message, as the tokens format joins.
Msg == <<"msg">>

Record(levelname, text) == [levelname |-> levelname, text |-> text]

\* CaldpLogger.__init__, the assignments that cannot fail
NewLogger == [errors |-> 0, warnings |-> 0, infos |-> 0, debugs |-> 0,
              verbose_level |-> 0, eol_pending |-> FALSE, out |-> <<>>]

NoLogger == [NewLogger EXCEPT !.verbose_level = -999]

\* format: the stringified arguments joined by sep, then end.  The text is
\* kept as the sequence of its tokens; end is "\n" or "".
format(args, end) == IF end = "" THEN args ELSE Append(args, end)

\* write: output goes to stdout and eol_pending records a missing newline
write(L, args, end) ==
    LET output == format(args, end)
    IN [L EXCEPT !.eol_pending = ~(Len(output) > 0 /\ output[Len(output)] = "\n"),
                 !.out = Append(@, Record("STDOUT", output))]

\* eformat's side effect: a pending end of line is written out first
eflush(L) == IF L.eol_pending THEN write(L, <<>>, "\n") ELSE L

\* eformat's value: the message without a line end
eformat(args) == format(args, "")

\* self.logger.<levelname>(self.eformat(...))
emit(L, levelname, args) ==
    LET F == eflush(L)
    IN [F EXCEPT !.out = Append(@, Record(levelname, eformat(args)))]

\* a variant of info that counts only the messages it emits
info_counts_emitted(L, args) ==
    IF L.verbose_level > -1 THEN emit([L EXCEPT !.infos = @ + 1], "INFO", args) ELSE L

info(L, args) ==
    LET C == [L EXCEPT !.infos = @ + 1]
    IN IF C.verbose_level > -1 THEN emit(C, "INFO", args) ELSE C

\* a variant of warn gated at info's threshold
warn_gated_as_info(L, args) ==
    LET C == [L EXCEPT !.warnings = @ + 1]
    IN IF C.verbose_level > -1 THEN emit(C, "WARNING", args) ELSE C

warn(L, args) ==
    LET C == [L EXCEPT !.warnings = @ + 1]
    IN IF C.verbose_level > -2 THEN emit(C, "WARNING", args) ELSE C

error(L, args) ==
    LET C == [L EXCEPT !.errors = @ + 1]
    IN IF C.verbose_level > -3 THEN emit(C, "ERROR", args) ELSE C

debug(L, args) == emit([L EXCEPT !.debugs = @ + 1], "DEBUG", args)

\* a variant of should_output that also holds back verbosity = level
should_output_strict(L, key) ==
    LET verbosity == IF key.kind = "none" THEN DEFAULT_VERBOSITY_LEVEL ELSE key.val
    IN L.verbose_level > verbosity

should_output(L, key) ==
    LET verbosity == IF key.kind = "none" THEN DEFAULT_VERBOSITY_LEVEL ELSE key.val
    IN ~(L.verbose_level < verbosity)

verbose(L, args, key) == IF should_output(L, key) THEN debug(L, args) ELSE L

verbose_warning(L, args, key) == IF should_output(L, key) THEN warn(L, args) ELSE L

status(L) == <<L.errors, L.warnings, L.infos>>

\* a variant of reset that forgets the debug counter
reset_three(L) == [L EXCEPT !.errors = 0, !.warnings = 0, !.infos = 0]

reset(L) == [L EXCEPT !.errors = 0, !.warnings = 0, !.infos = 0, !.debugs = 0]

\* set_verbose's assertion: -3 <= level <= 100
\* a variant of the assertion of line 180 that checks the lower limit only
set_verbose_ok_lower(level) == -3 <= level.val

set_verbose_ok(level) == -3 <= level.val /\ level.val <= 100

\* a variant of set_verbose that compares with == where the code uses is
set_verbose_eq(L, level) ==
    LET new == IF level.val = 1 THEN DEFAULT_VERBOSITY_LEVEL
               ELSE IF level.val = 0 THEN 0
               ELSE level.val
    IN [L EXCEPT !.verbose_level = new]

set_verbose(L, level) ==
    LET new == IF level.kind = "bool" /\ level.val = 1 THEN DEFAULT_VERBOSITY_LEVEL
               ELSE IF level.kind = "bool" /\ level.val = 0 THEN 0
               ELSE level.val
    IN [L EXCEPT !.verbose_level = new]

get_verbose(L) == L.verbose_level

\* a variant of fatal_error that logs the message without its prefix
fatal_error_plain(L, args) == error(L, args)

\* fatal_error up to its sys.exit: error("(FATAL)", *args)
fatal_error(L, args) == error(L, <<"(FATAL)">> \o args)

\* sys.exit(-1): the status the parent process sees is -1 mod 256
FatalExitCode == (-1) % 256

increment_errors(L, N) == [L EXCEPT !.errors = @ + N]

standard_status(L) ==
    LET A == info(L, <<"errors">>)
        B == info(A, <<"warnings">>)
    IN info(B, <<"infos">>)

\* __init__ lines 99-101: int(os.environ.get("CALDP_VERBOSITY", 0))
env_parses(e) == e.kind # "bad"

env_level(e) == IF e.kind = "int" THEN e.val ELSE 0

\* __init__ of a logger whose CALDP_VERBOSITY parses
init_logger(e) == [NewLogger EXCEPT !.verbose_level = env_level(e)]

\* __init__ line 108, reached once the handler's warning(...) call returned
init_fallback == [NewLogger EXCEPT !.verbose_level = DEFAULT_VERBOSITY_LEVEL]

Total(L) == L.errors + L.warnings + L.infos + L.debugs

Begin(L) == [L EXCEPT !.out = <<>>]

\* A call as its caller saw it: the value returned and the exception raised.
Op(name, arg, ret, raised) == [op |-> name, arg |-> arg, ret |-> ret, raised |-> raised]
NoOp == Op("none", NoArg, <<>>, "")

\* The caller's local variable old of the idiom of lines 38-57, and the level
\* get_verbose() gave before the idiom's first call.
NoScope == [state |-> "none", old |-> 0, before |-> 0, counted |-> FALSE]

\* wiped: some reset found a counter that was not zero.
NoCalls == [error |-> 0, warn |-> 0, info |-> 0, other |-> FALSE, wiped |-> FALSE]


\* The module-level names info, error, warning, ... are bound by lines
\* 231-249, after line 229 has constructed THE_LOGGER.
names_bound(p) == p = "running"

(***************************************************************************)
(* The logger's operations, each one call of the module-level API.         *)
(***************************************************************************)
LogStep(L2, op, c2) ==
    /\ proc = "running"
    /\ Total(L2) <= MaxCount
    /\ lg' = L2
    /\ lastOp' = op
    /\ calls' = c2
    /\ UNCHANGED <<proc, exitcode, env, second, scope>>
    /\ UNCHANGED pkgVars
    /\ UNCHANGED progVars

Info == LogStep(info(Begin(lg), Msg), Op("info", NoArg, <<>>, ""),
                [calls EXCEPT !.info = @ + 1])

Warn == LogStep(warn(Begin(lg), Msg), Op("warn", NoArg, <<>>, ""),
                [calls EXCEPT !.warn = @ + 1])

Error == LogStep(error(Begin(lg), Msg), Op("error", NoArg, <<>>, ""),
                 [calls EXCEPT !.error = @ + 1])

Debug == LogStep(debug(Begin(lg), Msg), Op("debug", NoArg, <<>>, ""), calls)

Verbose ==
    \E key \in VerbosityArgs :
        LogStep(verbose(Begin(lg), Msg, key), Op("verbose", key, <<>>, ""), calls)

VerboseWarning ==
    \E key \in VerbosityArgs :
        LogStep(verbose_warning(Begin(lg), Msg, key),
                Op("verbose_warning", key, <<>>, ""),
                IF should_output(lg, key) THEN [calls EXCEPT !.warn = @ + 1] ELSE calls)

Write ==
    \E nl \in BOOLEAN :
        LogStep(write(Begin(lg), Msg, IF nl THEN "\n" ELSE ""),
                Op("write", BoolArg(nl), <<>>, ""), calls)

Status == LogStep(Begin(lg), Op("status", NoArg, status(lg), ""), calls)

Reset == LogStep(reset(Begin(lg)), Op("reset", NoArg, <<>>, ""),
                 [NoCalls EXCEPT !.wiped = calls.wiped \/ Total(lg) > 0])

SetVerboseIn(args) ==
    \E level \in args :
        IF set_verbose_ok(level)
        THEN LogStep(set_verbose(Begin(lg), level),
                     Op("set_verbose", level, <<lg.verbose_level>>, ""), calls)
        ELSE LogStep(Begin(lg), Op("set_verbose", level, <<>>, "AssertionError"), calls)

SetVerbose == SetVerboseIn(FewLevelArgs)

\* set_verbose with every level of -5..102
SetVerboseAny == SetVerboseIn(LevelArgs)

GetVerbose == LogStep(Begin(lg), Op("get_verbose", NoArg, <<get_verbose(lg)>>, ""), calls)

IncrementErrors ==
    \E N \in {1, 2} :
        LogStep(increment_errors(Begin(lg), N), Op("increment_errors", IntArg(N), <<>>, ""),
                [calls EXCEPT !.other = TRUE])

StandardStatus ==
    LogStep(standard_status(Begin(lg)), Op("standard_status", NoArg, <<>>, ""),
            [calls EXCEPT !.info = @ + 3])

\* fatal_error: the error call, then sys.exit(-1)
FatalError ==
    /\ proc = "running"
    /\ Total(lg) < MaxCount
    /\ lg' = fatal_error(Begin(lg), Msg)
    /\ lastOp' = Op("fatal_error", NoArg, <<>>, "SystemExit")
    /\ calls' = [calls EXCEPT !.error = @ + 1]
    /\ proc' = "exited"
    /\ exitcode' = FatalExitCode
    /\ UNCHANGED <<env, second, scope>>
    /\ UNCHANGED pkgVars
    /\ UNCHANGED progVars

(***************************************************************************)
(* The scoped override of the module's doctest (lines 38-57):              *)
(*     old_verbose = log.set_verbose(L); ...; _ = log.set_verbose(old)     *)
(***************************************************************************)
ScopeStep(L2, op, sc2) ==
    /\ proc = "running"
    /\ lg' = L2
    /\ lastOp' = op
    /\ scope' = sc2
    /\ UNCHANGED <<proc, exitcode, env, second, calls>>
    /\ UNCHANGED pkgVars
    /\ UNCHANGED progVars

\* old = set_verbose(level), for a level the assertion of line 180 admits
ScopeEnter ==
    /\ scope.state \in {"none", "closed"}
    /\ \E level \in FewLevelArgs :
        /\ set_verbose_ok(level)
        /\ ScopeStep(set_verbose(Begin(lg), level),
                     Op("set_verbose", level, <<lg.verbose_level>>, ""),
                     [state |-> "open", old |-> lg.verbose_level,
                      before |-> get_verbose(lg),
                      counted |-> status(set_verbose(lg, level)) # status(lg)
                                  \/ set_verbose(lg, level).debugs # lg.debugs])

\* set_verbose(old)
ScopeExit ==
    /\ scope.state = "open"
    /\ LET level == IntArg(scope.old)
       IN IF set_verbose_ok(level)
          THEN ScopeStep(set_verbose(Begin(lg), level),
                         Op("set_verbose", level, <<lg.verbose_level>>, ""),
                         [scope EXCEPT !.state = "closed",
                                       !.counted = @ \/ status(set_verbose(lg, level)) # status(lg)
                                                     \/ set_verbose(lg, level).debugs # lg.debugs])
          ELSE ScopeStep(Begin(lg), Op("set_verbose", level, <<>>, "AssertionError"),
                         [scope EXCEPT !.state = "closed"])

(***************************************************************************)
(* caldp/file_ops.py: the file tree.                                       *)
(*                                                                         *)
(* A path is the sequence of its components; a relative path is resolved   *)
(* against the working directory by concatenation.  fs.dirs is the set of  *)
(* directories and fs.files maps each regular file to its content.         *)
(***************************************************************************)
Job == "J1"

\* ipppssoot + ".tar.gz"
tar_name(ipppssoot) == IF ipppssoot = "J1" THEN "J1.tar.gz" ELSE "tar.gz"

\* the extension a glob pattern *.ext matches on
Ext(name) ==
    CASE name = "a.fits" -> "fits"
      [] name = "b.tra" -> "tra"
      [] name = "c.png" -> "png"
      [] name = "J1.tar.gz" -> "gz"
      [] OTHER -> ""

WorkDir == <<"work">>
StagingDir == <<"work", "outputs">>
LocalDir == <<"tmp", "out">>

\* Destination URIs: file:/tmp/out, s3://mybucket/prefix, and one with a
\* scheme get_output_dir does not know.
UriLocal == [scheme |-> "file", path |-> LocalDir]
UriS3 == [scheme |-> "s3", path |-> <<"mybucket", "prefix">>]
UriOther == [scheme |-> "http", path |-> <<"host", "dir">>]
Uris == {UriLocal, UriS3, UriOther}

DataFile(readable) == [kind |-> "data", readable |-> readable, members |-> {}]
Archive(members) == [kind |-> "tar", readable |-> TRUE, members |-> members]

Abs(dir, rel) == dir \o rel

IsDir(F, p) == p \in F.dirs
IsFile(F, p) == p \in DOMAIN F.files

\* os.path.exists
exists(F, p) == IsDir(F, p) \/ IsFile(F, p)

\* the entries of directory d
children(F, d) ==
    IF IsDir(F, d)
    THEN {p \in F.dirs \cup DOMAIN F.files :
            Len(p) = Len(d) + 1 /\ SubSeq(p, 1, Len(d)) = d}
    ELSE {}

\* everything below directory d
below(F, d) ==
    {p \in F.dirs \cup DOMAIN F.files :
        Len(p) > Len(d) /\ SubSeq(p, 1, Len(d)) = d}

\* the file p created or overwritten with content c
put_file(F, p, c) ==
    [F EXCEPT !.files = [q \in (DOMAIN F.files) \cup {p} |->
                            IF q = p THEN c ELSE F.files[q]]]

\* os.remove of the regular file p
\* a variant of os.remove that leaves the file in place
remove_nothing(F, p) == F

remove(F, p) ==
    [F EXCEPT !.files = [q \in (DOMAIN F.files) \ {p} |-> F.files[q]]]

\* a set of paths in the order the directory listing gives them
RECURSIVE Listing(_)
Listing(S) ==
    IF S = {} THEN <<>>
    ELSE LET p == CHOOSE q \in S : TRUE IN <<p>> \o Listing(S \ {p})

\* glob.glob of dir/*.ext, or of dir/* when ext is "*", relative to cwd
glob(F, dir, rel, ext) ==
    LET hits == {p \in children(F, Abs(dir, rel)) :
                    ext = "*" \/ Ext(p[Len(p)]) = ext}
    IN Listing({SubSeq(p, Len(dir) + 1, Len(p)) : p \in hits})

get_output_dir_ok(output_uri) == output_uri.scheme \in {"file", "s3"}

\* get_output_dir: the path of a file: URI, or abspath("outputs")
get_output_dir(output_uri, dir) ==
    IF output_uri.scheme = "file" THEN output_uri.path ELSE Abs(dir, <<"outputs">>)

find_files(F, dir, ipppssoot) ==
    glob(F, dir, <<ipppssoot>>, "fits")
        \o glob(F, dir, <<ipppssoot>>, "tra")
        \o glob(F, dir, <<ipppssoot, "previews">>, "*")

\* process.get_output_path: the destination URI with the job's component
get_output_path(output_uri, ipppssoot) ==
    [output_uri EXCEPT !.path = Append(@, ipppssoot)]

\* TarFile.add of f: the exception it raises, or ""
tar_add_error(F, p) ==
    IF ~exists(F, p) THEN "FileNotFoundError"
    ELSE IF IsFile(F, p) /\ ~F.files[p].readable THEN "PermissionError"
    ELSE ""

\* TarFile.add of the relative name f: f, and all below it when a directory
tar_add(F, dir, tar, f) ==
    LET p == Abs(dir, f)
        t == Abs(dir, <<tar>>)
        added == {f} \cup {SubSeq(q, Len(dir) + 1, Len(q)) : q \in below(F, p)}
    IN put_file(F, t, Archive(F.files[t].members \cup added))

\* shutil.copy(src, dst): into dst when dst is a directory, else onto dst
copy_target(F, src, dst) == IF IsDir(F, dst) THEN Append(dst, src[Len(src)]) ELSE dst

copy(F, src, dst) == put_file(F, copy_target(F, src, dst), F.files[src])

\* a variant that cleans the archive up once the upload was tried
close_archive_removing(F, p) == remove(F, p)

\* leaving the with block of line 53: the archive is closed, and kept
close_archive(F, p) == F

\* upload_tar lines 48-50: bucket and object name of the upload
objectname(output_path, tar) ==
    [bucket |-> output_path.path[1],
     key |-> Append(Tail(output_path.path), tar[Len(tar)])]

(***************************************************************************)
(* tar_outputs, one action per statement.  pkg.pc names the line about to  *)
(* run; an exception that leaves tar_outputs is kept in pkg.raised with    *)
(* the line that raised it in pkg.at.  pkg.hist lists the make_tar calls   *)
(* that returned, each with the archive found at the path it returned.     *)
(***************************************************************************)
NoFrame ==
    [pc |-> "idle", output_uri |-> UriLocal, working_dir |-> <<>>,
     output_path |-> UriLocal, output_dir |-> <<>>, file_list |-> <<>>, i |-> 0,
     tar |-> <<>>, raised |-> "", at |-> "", ret |-> <<>>, uploads |-> 0,
     opened |-> 0, hist |-> <<>>, entry |-> "tar_outputs"]

\* a variant of line 52 that takes every destination for an s3 one
startswith_any(output_path) == TRUE

\* upload_tar line 52: output_path.startswith("s3")
startswith_s3(output_path) == output_path.scheme = "s3"

\* where control goes when upload_tar returns: to line 95 of tar_outputs, or
\* to the caller that called upload_tar itself
after_upload(frame) == IF frame.entry = "upload_tar" THEN "returned" ELSE "L95"

PkgLive == proc = "running" /\ pkg.pc \notin {"idle", "returned", "raised"}

\* a statement of tar_outputs that logs nothing
Quiet == UNCHANGED logVars /\ UNCHANGED progVars

\* log.info(...) inside make_tar and upload_tar
Logs(args) ==
    /\ lg' = info(Begin(lg), args)
    /\ lastOp' = Op("info", NoArg, <<>>, "")
    /\ calls' = [calls EXCEPT !.info = @ + 1]
    /\ UNCHANGED <<proc, exitcode, env, second, scope>>
    /\ UNCHANGED progVars

\* a variant of an exception that is swallowed, the run going on to upload
Raise_swallowed(exc) == [pkg EXCEPT !.pc = "L47", !.raised = exc, !.at = pkg.pc]

Raise(exc) == [pkg EXCEPT !.pc = "raised", !.raised = exc, !.at = pkg.pc]

\* lines 88-89
TarOutputs ==
    \E uri \in Uris :
        /\ proc = "running"
        /\ pkg.pc \in {"idle", "returned", "raised"}
        /\ runs < MaxRuns
        /\ runs' = runs + 1
        /\ pkg' = [NoFrame EXCEPT !.pc = "L90", !.output_uri = uri,
                                  !.working_dir = cwd,
                                  !.output_path = get_output_path(uri, Job),
                                  !.hist = pkg.hist]
        /\ UNCHANGED <<cwd, fs, remote>>
        /\ Quiet

\* line 90
GetOutputDir ==
    /\ PkgLive /\ pkg.pc = "L90"
    /\ pkg' = IF get_output_dir_ok(pkg.output_uri)
              THEN [pkg EXCEPT !.pc = "L91",
                               !.output_dir = get_output_dir(pkg.output_uri, cwd)]
              ELSE Raise("UnboundLocalError")
    /\ UNCHANGED <<cwd, fs, remote, runs>>
    /\ Quiet

\* line 91
ChdirOutput ==
    /\ PkgLive /\ pkg.pc = "L91"
    /\ IF IsDir(fs, pkg.output_dir)
       THEN cwd' = pkg.output_dir /\ pkg' = [pkg EXCEPT !.pc = "L92"]
       ELSE cwd' = cwd /\ pkg' = Raise("FileNotFoundError")
    /\ UNCHANGED <<fs, remote, runs>>
    /\ Quiet

\* line 92
FindFiles ==
    /\ PkgLive /\ pkg.pc = "L92"
    /\ pkg' = [pkg EXCEPT !.pc = "L33", !.file_list = find_files(fs, cwd, Job)]
    /\ UNCHANGED <<cwd, fs, remote, runs>>
    /\ Quiet

\* make_tar lines 32-33
MakeTarBegin ==
    /\ PkgLive /\ pkg.pc = "L33"
    /\ pkg' = [pkg EXCEPT !.pc = "L34"]
    /\ Logs(<<"Creating tarfile: ", tar_name(Job)>>)
    /\ UNCHANGED <<cwd, fs, remote, runs>>

\* make_tar lines 34-35
RemoveStale ==
    /\ PkgLive /\ pkg.pc = "L34"
    /\ LET t == Abs(cwd, <<tar_name(Job)>>)
       IN fs' = IF exists(fs, t) THEN remove(fs, t) ELSE fs
    /\ pkg' = [pkg EXCEPT !.pc = "L36"]
    /\ UNCHANGED <<cwd, remote, runs>>
    /\ Quiet

\* make_tar line 36: tarfile.open(tar, "x:gz") creates the file, or fails
TarOpen ==
    /\ PkgLive /\ pkg.pc = "L36"
    /\ LET t == Abs(cwd, <<tar_name(Job)>>)
       IN IF exists(fs, t)
          THEN fs' = fs /\ pkg' = Raise("FileExistsError")
          ELSE fs' = put_file(fs, t, Archive({})) /\ pkg' = [pkg EXCEPT !.pc = "L38", !.i = 1]
    /\ UNCHANGED <<cwd, remote, runs>>
    /\ Quiet

\* make_tar lines 37-38: one turn of the loop, or its end
TarAdd ==
    /\ PkgLive /\ pkg.pc = "L38"
    /\ IF pkg.i > Len(pkg.file_list)
       THEN fs' = fs /\ pkg' = [pkg EXCEPT !.pc = "L39"]
       ELSE LET f == pkg.file_list[pkg.i]
                err == tar_add_error(fs, Abs(cwd, f))
            IN IF err = ""
               THEN /\ fs' = tar_add(fs, cwd, tar_name(Job), f)
                    /\ pkg' = [pkg EXCEPT !.i = @ + 1]
               ELSE fs' = fs /\ pkg' = Raise(err)
    /\ UNCHANGED <<cwd, remote, runs>>
    /\ Quiet

\* make_tar lines 39-40
TarDone ==
    /\ PkgLive /\ pkg.pc = "L39"
    /\ pkg' = [pkg EXCEPT !.pc = "L41", !.tar = <<Job, tar_name(Job)>>]
    /\ Logs(<<"Tar successful: ", tar_name(Job)>>)
    /\ UNCHANGED <<cwd, fs, remote, runs>>

\* make_tar line 41
CopyTar ==
    /\ PkgLive /\ pkg.pc = "L41"
    /\ fs' = copy(fs, Abs(cwd, <<tar_name(Job)>>), Abs(cwd, <<Job>>))
    /\ pkg' = [pkg EXCEPT !.pc = "L42"]
    /\ UNCHANGED <<cwd, remote, runs>>
    /\ Quiet

\* make_tar lines 42-43
RemoveTar ==
    /\ PkgLive /\ pkg.pc = "L42"
    /\ fs' = remove(fs, Abs(cwd, <<tar_name(Job)>>))
    /\ pkg' = [pkg EXCEPT
                 !.pc = "L47",
                 !.hist = Append(@, [dir |-> cwd, file_list |-> pkg.file_list,
                                     tar_dest |-> pkg.tar,
                                     found |-> IsFile(fs', Abs(cwd, pkg.tar)),
                                     members |-> IF IsFile(fs', Abs(cwd, pkg.tar))
                                                 THEN fs'.files[Abs(cwd, pkg.tar)].members
                                                 ELSE {}])]
    /\ UNCHANGED <<cwd, remote, runs>>
    /\ Quiet

\* upload_tar(tar, output_path) called by itself, for the archive make_tar
\* names and each destination
UploadTar ==
    \E dest \in Uris :
        /\ proc = "running"
        /\ pkg.pc \in {"idle", "returned", "raised"}
        /\ runs < MaxRuns
        /\ runs' = runs + 1
        /\ pkg' = [NoFrame EXCEPT !.pc = "L47", !.entry = "upload_tar",
                                  !.output_uri = dest, !.output_path = dest,
                                  !.working_dir = cwd,
                                  !.tar = <<Job, tar_name(Job)>>,
                                  !.hist = pkg.hist]
        /\ UNCHANGED <<cwd, fs, remote>>
        /\ Quiet

\* upload_tar lines 47-51
UploadBegin ==
    /\ PkgLive /\ pkg.pc = "L47"
    /\ pkg' = [pkg EXCEPT !.pc = "L52"]
    /\ Logs(<<"Uploading: s3://">>)
    /\ UNCHANGED <<cwd, fs, remote, runs>>

\* upload_tar lines 52-53
OpenTar ==
    /\ PkgLive /\ pkg.pc = "L52"
    /\ pkg' = IF ~startswith_s3(pkg.output_path) THEN [pkg EXCEPT !.pc = after_upload(pkg)]
              ELSE IF IsFile(fs, Abs(cwd, pkg.tar))
                   THEN [pkg EXCEPT !.pc = "L54", !.opened = @ + 1]
                   ELSE Raise("FileNotFoundError")
    /\ UNCHANGED <<cwd, fs, remote, runs>>
    /\ Quiet

\* upload_tar line 54: the storage client stores the object, or fails
Upload ==
    /\ PkgLive /\ pkg.pc = "L54"
    /\ \E ok \in BOOLEAN :
        IF ok
        THEN /\ remote' = remote \cup
                    {[object |-> objectname(pkg.output_path, pkg.tar),
                      members |-> fs.files[Abs(cwd, pkg.tar)].members]}
             /\ pkg' = [pkg EXCEPT !.pc = after_upload(pkg), !.uploads = @ + 1]
        ELSE /\ remote' = remote
             /\ pkg' = [Raise("S3UploadFailedError") EXCEPT !.uploads = @ + 1]
    /\ fs' = close_archive(fs, Abs(cwd, pkg.tar))
    /\ UNCHANGED <<cwd, runs>>
    /\ Quiet

\* line 95
ChdirBack ==
    /\ PkgLive /\ pkg.pc = "L95"
    /\ cwd' = pkg.working_dir
    /\ pkg' = [pkg EXCEPT !.pc = "L97"]
    /\ UNCHANGED <<fs, remote, runs>>
    /\ Quiet

\* lines 97-98
Return ==
    /\ PkgLive /\ pkg.pc = "L97"
    /\ pkg' = [pkg EXCEPT !.pc = "returned",
                          !.ret = IF pkg.output_uri.scheme = "file"
                                  THEN <<pkg.tar, pkg.file_list>> ELSE <<>>]
    /\ UNCHANGED <<cwd, fs, remote, runs>>
    /\ Quiet

NextPkg ==
    \/ TarOutputs \/ GetOutputDir \/ ChdirOutput \/ FindFiles
    \/ MakeTarBegin \/ RemoveStale \/ TarOpen \/ TarAdd \/ TarDone \/ CopyTar
    \/ RemoveTar \/ UploadBegin \/ OpenTar \/ Upload \/ ChdirBack \/ Return

\* The file trees a run starts from.  Each output directory exists or not;
\* where it exists the job's directory is absent, or holds any of a.fits,
\* b.tra and previews/c.png, each readable or not.
JobFiles == {<<"a.fits">>, <<"b.tra">>, <<"previews", "c.png">>}

Tree(roots, jobdir, present, unreadable) ==
    LET jobs == IF jobdir THEN {Append(r, Job) : r \in roots} ELSE {}
        prev == IF <<"previews", "c.png">> \in present
                THEN {Append(j, "previews") : j \in jobs} ELSE {}
        paths == {j \o f : j \in jobs, f \in present}
    IN [dirs |-> {<<>>, <<"work">>, <<"tmp">>} \cup roots \cup jobs \cup prev,
        files |-> [p \in paths |->
                     DataFile(SubSeq(p, Len(p) - (IF p[Len(p)] = "c.png" THEN 1 ELSE 0), Len(p))
                                \notin unreadable)]]

InitPkg ==
    /\ proc = "running"
    /\ exitcode = 0
    /\ env = EnvUnset
    /\ lg = init_logger(env)
    /\ second = NoLogger
    /\ lastOp = NoOp
    /\ scope = NoScope
    /\ calls = NoCalls
    /\ cwd = WorkDir
    /\ \E roots \in SUBSET {StagingDir, LocalDir}, jobdir \in BOOLEAN,
          present \in SUBSET JobFiles :
        \E unreadable \in SUBSET present :
            /\ (~jobdir => present = {})
            /\ fs = Tree(roots, jobdir, present, unreadable)
    /\ remote = {}
    /\ pkg = NoFrame
    /\ runs = 0
    /\ IdleProg

SpecPkg == InitPkg /\ [][NextPkg]_vars

\* tar_outputs, and upload_tar called on its own
NextUpload == NextPkg \/ UploadTar

SpecUpload == InitPkg /\ [][NextUpload]_vars

(***************************************************************************)
(* ProgressPercentage: calls of one instance from the storage client's     *)
(* threads.  A call takes the lock, adds its increment to _seen_so_far in  *)
(* a read and a write, computes and writes the percentage, and releases.   *)
(***************************************************************************)
Threads == 1 .. MaxThreads

\* the byte counts a call may report, and the sizes of the archive
Increments == {5, 10}
Sizes == {20, 25}

\* a variant of the lock that never makes a caller wait
lock_ignored(P) == TRUE

\* with self._lock: the lock can be taken when no thread holds it
lock_free(P) == P.lock = 0

\* (seen / size) * 100 as "%.2f" prints it, in hundredths of a percent
percentage(seen, size) == (2 * seen * 10000 + size) \div (2 * size)

IdleThread == [pc |-> "idle", bytes_amount |-> 0, loaded |-> 0]

\* __call__ entered with bytes_amount = b
ProgCall(t) ==
    \E b \in Increments :
        /\ thr[t].pc = "idle"
        /\ thr' = [thr EXCEPT ![t] = [pc |-> "L66", bytes_amount |-> b, loaded |-> 0]]
        /\ issued' = Append(issued, b)
        /\ UNCHANGED <<prog, reports>>

\* line 66
ProgAcquire(t) ==
    /\ thr[t].pc = "L66"
    /\ lock_free(prog)
    /\ prog' = [prog EXCEPT !.lock = t]
    /\ thr' = [thr EXCEPT ![t].pc = "L67"]
    /\ UNCHANGED <<reports, issued>>

\* line 67, the read of self._seen_so_far
ProgLoad(t) ==
    /\ thr[t].pc = "L67"
    /\ thr' = [thr EXCEPT ![t].pc = "L67w", ![t].loaded = prog.seen_so_far]
    /\ UNCHANGED <<prog, reports, issued>>

\* line 67, the write of the sum
ProgStore(t) ==
    /\ thr[t].pc = "L67w"
    /\ prog' = [prog EXCEPT !.seen_so_far = thr[t].loaded + thr[t].bytes_amount]
    /\ thr' = [thr EXCEPT ![t].pc = "L68"]
    /\ UNCHANGED <<reports, issued>>

\* lines 68-70
ProgReport(t) ==
    /\ thr[t].pc = "L68"
    /\ reports' = Append(reports,
                         [seen_so_far |-> prog.seen_so_far,
                          percentage |-> percentage(prog.seen_so_far, prog.size),
                          bytes_amount |-> thr[t].bytes_amount])
    /\ thr' = [thr EXCEPT ![t].pc = "exit"]
    /\ UNCHANGED <<prog, issued>>

\* leaving the with block
ProgRelease(t) ==
    /\ thr[t].pc = "exit"
    /\ prog' = [prog EXCEPT !.lock = IF @ = t THEN 0 ELSE @]
    /\ thr' = [thr EXCEPT ![t].pc = "done"]
    /\ UNCHANGED <<reports, issued>>

InitProg ==
    /\ proc = "running"
    /\ exitcode = 0
    /\ env = EnvUnset
    /\ lg = init_logger(env)
    /\ second = NoLogger
    /\ lastOp = NoOp
    /\ scope = NoScope
    /\ calls = NoCalls
    /\ IdlePkg
    /\ \E size \in Sizes : prog = [size |-> size, seen_so_far |-> 0, lock |-> 0]
    /\ thr = [t \in Threads |-> IdleThread]
    /\ reports = <<>>
    /\ issued = <<>>

\* a step of __call__ touches neither the logger nor the file tree
ProgOnly == UNCHANGED logVars /\ UNCHANGED pkgVars

NextProg ==
    \/ \E t \in Threads : ProgCall(t) /\ ProgOnly
    \/ \E t \in Threads : ProgAcquire(t) /\ ProgOnly
    \/ \E t \in Threads : ProgLoad(t) /\ ProgOnly
    \/ \E t \in Threads : ProgStore(t) /\ ProgOnly
    \/ \E t \in Threads : ProgReport(t) /\ ProgOnly
    \/ \E t \in Threads : ProgRelease(t) /\ ProgOnly

SpecProg == InitProg /\ [][NextProg]_vars

(***************************************************************************)
(* Construction.                                                           *)
(***************************************************************************)
\* CaldpLogger.__init__ lines 90-108 with CALDP_VERBOSITY = e.  bound says
\* whether the module-level name warning is bound; T is THE_LOGGER, on which
\* that name counts.  The value is the exception that leaves __init__, the
\* logger constructed and THE_LOGGER afterwards.
construct(e, bound, T) ==
    IF env_parses(e)
    THEN [raised |-> "", self |-> init_logger(e), the_logger |-> T]
    ELSE IF bound
         THEN [raised |-> "", self |-> init_fallback,
               the_logger |-> warn(T, <<"Bad format for CALDP_VERBOSITY =">>)]
         ELSE [raised |-> "NameError", self |-> NoLogger, the_logger |-> T]

\* import caldp.log: line 229 constructs THE_LOGGER before lines 231-249 bind
\* the module-level names, so an exception from __init__ ends the import.
Import ==
    /\ proc = "unloaded"
    /\ LET r == construct(env, names_bound(proc), lg)
       IN /\ lg' = r.self
          /\ proc' = IF r.raised = "" THEN "running" ELSE "import_failed"
          /\ lastOp' = Op("import", NoArg, <<>>, r.raised)
    /\ UNCHANGED <<exitcode, env, second, scope, calls>>
    /\ UNCHANGED pkgVars
    /\ UNCHANGED progVars

\* CaldpLogger(...) called once the module is loaded, CALDP_VERBOSITY being e
Construct ==
    \E e \in EnvValues :
        /\ proc = "running"
        /\ LET r == construct(e, names_bound(proc), Begin(lg))
           IN /\ Total(r.the_logger) <= MaxCount
              /\ lg' = r.the_logger
              /\ second' = r.self
              /\ calls' = [calls EXCEPT !.warn = @ + (r.the_logger.warnings - lg.warnings)]
              /\ lastOp' = Op("CaldpLogger", NoArg, <<>>, r.raised)
        /\ env' = e
        /\ UNCHANGED <<proc, exitcode, scope>>
        /\ UNCHANGED pkgVars
        /\ UNCHANGED progVars

(***************************************************************************)
(* Initial states.                                                         *)
(***************************************************************************)
\* before import caldp.log, under each value of CALDP_VERBOSITY
InitImport ==
    /\ proc = "unloaded"
    /\ exitcode = 0
    /\ env \in EnvValues
    /\ lg = NoLogger
    /\ second = NoLogger
    /\ lastOp = NoOp
    /\ scope = NoScope
    /\ calls = NoCalls
    /\ IdlePkg
    /\ IdleProg

\* The environments the logger's calls are explored under: the variable unset,
\* and one level that only the environment can set.
LogEnvs == {EnvUnset, EnvInt(200)}

\* after a successful import, counters zero
InitLog ==
    /\ proc = "running"
    /\ exitcode = 0
    /\ env \in LogEnvs
    /\ lg = init_logger(env)
    /\ second = NoLogger
    /\ lastOp = NoOp
    /\ scope = NoScope
    /\ calls = NoCalls
    /\ IdlePkg
    /\ IdleProg

NextImport == Import \/ Construct

NextLog ==
    \/ Info \/ Warn \/ Error \/ Debug \/ Verbose \/ VerboseWarning \/ Write
    \/ Status \/ Reset \/ SetVerbose \/ GetVerbose \/ IncrementErrors
    \/ StandardStatus \/ FatalError

\* the calls that set and read the level, over all levels, between counting calls
NextLevels == SetVerboseAny \/ GetVerbose \/ Error

\* the scoped override, around other set_verbose calls and counting calls
NextScope ==
    \/ ScopeEnter
    \/ ScopeExit
    \/ scope.state # "closed" /\ SetVerbose
    \/ scope.state # "closed" /\ Error

SpecScope == InitLog /\ [][NextScope]_vars

SpecLevels == InitLog /\ [][NextLevels]_vars

SpecImport == InitImport /\ [][NextImport]_vars

SpecLog == InitLog /\ [][NextLog]_vars

(***************************************************************************)
(* Properties of the logger.                                               *)
(***************************************************************************)
\* the number of records of one level name among the messages of a call
Emitted(L, levelname) ==
    Cardinality({i \in 1 .. Len(L.out) : L.out[i].levelname = levelname})

\* C1: from zeroed counters, after N calls of error, M of warn and K of info
\* in any order, and no other change of a counter, status() is (N, M, K),
\* whether or not the level let the messages out.
C1_StatusCountsCalls ==
    (proc \in {"running", "exited"} /\ ~calls.other)
        => status(lg) = <<calls.error, calls.warn, calls.info>>

\* all three were called, and the last info call was counted at a level that
\* squelches every message
C1_Witness ==
    /\ ~calls.other
    /\ calls.error >= 1 /\ calls.warn >= 1 /\ calls.info >= 1
    /\ lastOp.op = "info"
    /\ lg.verbose_level = -3
    /\ lg.out = <<>>

\* C6: after reset(), status() is (0, 0, 0) and the debug counter is 0,
\* whatever was called before.
C6_ResetZeroes ==
    lastOp.op = "reset" => (status(lg) = <<0, 0, 0>> /\ lg.debugs = 0)

\* a reset that found counters to zero
C6_Witness == lastOp.op = "reset" /\ calls.wiped /\ lg.verbose_level = 60

\* the level the claim C7 expects after set_verbose(arg)
C7_Expected(arg) ==
    IF arg.kind = "bool" THEN (IF arg.val = 1 THEN 50 ELSE 0) ELSE arg.val

\* C7: set_verbose(L) with L in -3..100 makes get_verbose() return L,
\* set_verbose(True) makes it return 50 and set_verbose(False) 0, from any
\* level.
C7_SetThenGet ==
    (lastOp.op = "set_verbose"
        /\ (lastOp.arg.kind = "bool" \/ lastOp.arg.val \in ValidLevels))
        => (lastOp.raised = "" /\ get_verbose(lg) = C7_Expected(lastOp.arg))

\* set_verbose(True) called at the level 200 that the environment set
C7_Witness ==
    /\ lastOp.op = "set_verbose"
    /\ lastOp.arg = BoolArg(TRUE)
    /\ lastOp.ret = <<200>>
    /\ get_verbose(lg) = 50

\* the verbosity of a verbose call as the claim C9 reads it
C9_Verbosity(key) == IF key.kind = "none" THEN 50 ELSE key.val

\* one step of C9: what a verbose call may change
C9_VerboseStep ==
    lastOp'.op = "verbose" =>
        IF C9_Verbosity(lastOp'.arg) > lg.verbose_level
        THEN lg' = Begin(lg)
        ELSE /\ lg'.debugs = lg.debugs + 1
             /\ lg'.errors = lg.errors
             /\ lg'.warnings = lg.warnings
             /\ lg'.infos = lg.infos
             /\ lg'.verbose_level = lg.verbose_level
             /\ Emitted(lg', "DEBUG") = 1
             /\ Emitted(lg', "ERROR") + Emitted(lg', "WARNING") + Emitted(lg', "INFO") = 0

\* C9: verbose(msg, verbosity=v), v defaulting to 50, changes nothing and
\* emits nothing when v exceeds the logger's level; otherwise it emits one
\* debug message and adds exactly one to the debug counter.
C9_VerboseGated == [][C9_VerboseStep]_vars

\* a verbose call at verbosity 60 held back by level 50, after one that passed
C9_Witness ==
    /\ lastOp.op = "verbose"
    /\ lastOp.arg = IntArg(60)
    /\ lg.verbose_level = 50
    /\ lg.out = <<>>
    /\ lg.debugs = 1

\* one step of C10: what fatal_error does, and that nothing else exits
C10_FatalStep ==
    /\ lastOp'.op = "fatal_error" =>
        /\ lg'.errors = lg.errors + 1
        /\ lg'.warnings = lg.warnings
        /\ lg'.infos = lg.infos
        /\ lg'.debugs = lg.debugs
        /\ Emitted(lg', "ERROR") = (IF lg.verbose_level > -3 THEN 1 ELSE 0)
        /\ \A i \in 1 .. Len(lg'.out) :
              lg'.out[i].levelname = "ERROR" => lg'.out[i].text[1] = "(FATAL)"
        /\ proc' = "exited"
        /\ exitcode' # 0
    /\ proc = "exited" => vars' = vars
    /\ (proc # "exited" /\ proc' = "exited") => lastOp'.op = "fatal_error"

\* C10: fatal_error adds exactly one to the error counter, emits (unless
\* errors are squelched) an error message that begins "(FATAL)", and ends
\* the process with a non-zero exit code; nothing of the logger runs after
\* it, and no other call of the logger ends the process.
C10_FatalTerminates == [][C10_FatalStep]_vars

\* the process ended by a fatal_error whose message went out
C10_Witness ==
    /\ proc = "exited"
    /\ exitcode = 255
    /\ lastOp.op = "fatal_error"
    /\ lg.errors = 2
    /\ Emitted(lg, "ERROR") = 1

\* the logger the last construction built
C8_Built == IF lastOp.op = "import" THEN lg ELSE second

\* C8: with a malformed CALDP_VERBOSITY, constructing the logger raises
\* nothing, leaves its level at the default 50, and emits and counts exactly
\* one warning (warnings = 1, errors = 0).

C8_MalformedFallsBack ==
    (lastOp.op \in {"import", "CaldpLogger"} /\ env.kind = "bad")
        => /\ lastOp.raised = ""
           /\ proc = "running"
           /\ C8_Built.verbose_level = DEFAULT_VERBOSITY_LEVEL
           /\ Emitted(lg, "WARNING") = 1
           /\ lastOp.op = "import" => (lg.warnings = 1 /\ lg.errors = 0)

\* C11: set_verbose returns the level in effect immediately before the call,
\* so that old = set_verbose(L); ...; set_verbose(old) leaves get_verbose()
\* at its value before the first call, for every prior level and every
\* valid L, true and false included, without changing any counter.
C11_ScopedOverrideRestores ==
    scope.state = "closed"
        => /\ scope.old = scope.before
           /\ lastOp.raised = ""
           /\ get_verbose(lg) = scope.before
           /\ ~scope.counted

\* the threshold each counting call is gated at, its level name and counter
C16_Gate(op) ==
    CASE op = "error" -> [above |-> -3, levelname |-> "ERROR"]
      [] op = "warn" -> [above |-> -2, levelname |-> "WARNING"]
      [] op = "info" -> [above |-> -1, levelname |-> "INFO"]

C16_Counter(L, op) ==
    CASE op = "error" -> L.errors
      [] op = "warn" -> L.warnings
      [] op = "info" -> L.infos

\* one step of C16
C16_Step ==
    lastOp'.op \in {"error", "warn", "info"} =>
        LET g == C16_Gate(lastOp'.op)
        IN /\ Emitted(lg', g.levelname) = (IF lg.verbose_level > g.above THEN 1 ELSE 0)
           /\ \A i \in 1 .. Len(lg'.out) :
                 lg'.out[i].levelname \in {"ERROR", "WARNING", "INFO", "DEBUG"}
                     => lg'.out[i].levelname = g.levelname
           /\ C16_Counter(lg', lastOp'.op) = C16_Counter(lg, lastOp'.op) + 1
           /\ Total(lg') = Total(lg) + 1
           /\ lg'.debugs = lg.debugs
           /\ \A o \in {"error", "warn", "info"} \ {lastOp'.op} :
                 C16_Counter(lg', o) = C16_Counter(lg, o)
           /\ lg'.verbose_level = lg.verbose_level

\* C16: error() emits its message if and only if the level is > -3, warn()
\* if and only if it is > -2, info() if and only if it is > -1; each adds
\* exactly one to its own counter whether it emits or not, and leaves the
\* other counters and the level as they were.
C16_GatedEmissionUngatedCount == [][C16_Step]_vars

\* a warning held back at level -2 and counted, after one that was emitted
C16_Witness ==
    /\ lastOp.op = "warn"
    /\ lg.verbose_level = -2
    /\ lg.warnings = 2
    /\ lg.out = <<>>
    /\ calls.warn = 2

\* one step of C17
C17_Step ==
    lastOp'.op = "set_verbose" =>
        /\ (lastOp'.arg.kind = "int" /\ lastOp'.arg.val \notin ValidLevels) =>
              /\ lastOp'.raised = "AssertionError"
              /\ lastOp'.ret = <<>>
              /\ lg'.verbose_level = lg.verbose_level
              /\ lg'.errors = lg.errors
              /\ lg'.warnings = lg.warnings
              /\ lg'.infos = lg.infos
              /\ lg'.debugs = lg.debugs
        /\ lastOp'.raised = "" => lg'.verbose_level \in ValidLevels

Range(q) == {q[k] : k \in 1 .. Len(q)}

MakeTarLines == {"L33", "L34", "L36", "L38", "L39", "L41", "L42"}

\* C2: when tar_outputs ends, by return or by an exception of find_files,
\* make_tar or upload_tar, the working directory is the one it began in.
C2_CwdRestored ==
    pkg.pc \in {"returned", "raised"} => cwd = pkg.working_dir

\* the upload of an s3:// run was tried and did not succeed
C4_UploadFailed ==
    /\ pkg.output_uri.scheme = "s3"
    /\ pkg.uploads = 1
    /\ pkg.pc \notin {"L95", "L97", "returned"}

\* C4: when the destination is s3:// and the storage client's upload fails,
\* tar_outputs ends with that failure raised to its caller and the archive
\* {jobId}/{jobId}.tar.gz that make_tar made is still in the staging
\* directory.
C4_ArchiveKept ==
    C4_UploadFailed =>
        /\ pkg.pc = "raised"
        /\ pkg.raised = "S3UploadFailedError"
        /\ IsFile(fs, Abs(pkg.output_dir, <<Job, tar_name(Job)>>))
        /\ fs.files[Abs(pkg.output_dir, <<Job, tar_name(Job)>>)].members
               = Range(pkg.file_list)

\* a second attempt whose upload failed, with files in the archive
C4_Witness ==
    /\ C4_UploadFailed
    /\ runs = 2
    /\ Len(pkg.file_list) = 3
    /\ IsFile(fs, Abs(StagingDir, <<Job, tar_name(Job)>>))

\* two make_tar calls returned, in one directory and with one file set
C5_SamePair ==
    /\ Len(pkg.hist) = 2
    /\ pkg.hist[1].dir = pkg.hist[2].dir
    /\ pkg.hist[1].file_list = pkg.hist[2].file_list

\* C5: two make_tar calls in succession for the same job and file set leave
\* one archive {jobId}/{jobId}.tar.gz whose members after the second call are
\* those after the first, exactly the file set; the second call succeeds
\* although the first call's archive exists.
C5_MakeTarIdempotent ==
    /\ (C5_SamePair /\ pkg.pc = "L47") =>
          /\ pkg.hist[1].found /\ pkg.hist[2].found
          /\ pkg.hist[2].tar_dest = <<Job, tar_name(Job)>>
          /\ pkg.hist[2].members = pkg.hist[1].members
          /\ pkg.hist[2].members = Range(pkg.hist[2].file_list)
          /\ ~exists(fs, Abs(cwd, <<tar_name(Job)>>))
    /\ (Len(pkg.hist) = 1 /\ pkg.hist[1].dir = cwd
            /\ pkg.hist[1].file_list = pkg.file_list)
          => ~(pkg.pc = "raised" /\ pkg.at \in MakeTarLines)

\* C12: upload_tar(tar, output_path) called with a destination that begins
\* with neither file nor s3 fails with an error raised to its caller; it
\* never returns as if it had succeeded.
C12_MalformedUploadFails ==
    (pkg.entry = "upload_tar" /\ pkg.output_path.scheme \notin {"file", "s3"})
        => pkg.pc # "returned"

UploadLines == {"L47", "L52", "L54"}

\* C13: in a tar_outputs run with a file: destination the storage client's
\* upload is never invoked and the archive is never opened for upload, yet
\* the run goes through upload_tar, which raises nothing, and on to its end.
C13_LocalNoTransfer ==
    (pkg.entry = "tar_outputs" /\ pkg.output_uri.scheme = "file" /\ pkg.pc # "idle")
        => /\ pkg.uploads = 0
           /\ pkg.opened = 0
           /\ pkg.pc = "raised" => pkg.at \notin UploadLines
           /\ pkg.pc \in {"L95", "L97", "returned"} =>
                 /\ lg.out # <<>>
                 /\ lg.out[Len(lg.out)].text = <<"Uploading: s3://">>

\* a file: run of three files that returned its archive and file list
C13_Witness ==
    /\ pkg.entry = "tar_outputs"
    /\ pkg.output_uri = UriLocal
    /\ pkg.pc = "returned"
    /\ pkg.ret = <<<<Job, tar_name(Job)>>, pkg.file_list>>
    /\ Len(pkg.file_list) = 3
    /\ IsFile(fs, Abs(LocalDir, <<Job, tar_name(Job)>>))
    /\ pkg.uploads = 0
    /\ pkg.opened = 0

\* the state of the packaging operation that a line of tar_outputs belongs to
Stage(pc) ==
    CASE pc \in {"L90", "L91", "L92"} -> "Start"
      [] pc \in MakeTarLines -> "Collected"
      [] pc \in UploadLines -> "Archived"
      [] pc \in {"L95", "L97"} -> "Transferred"
      [] pc = "returned" -> "Done"
      [] pc = "raised" -> "Failed"
      [] OTHER -> "None"

StageOrder ==
    {<<"Start", "Collected">>, <<"Collected", "Archived">>,
     <<"Archived", "Transferred">>, <<"Transferred", "Done">>}

\* one step of C14
C14_Step ==
    /\ \/ Stage(pkg'.pc) = Stage(pkg.pc)
       \/ <<Stage(pkg.pc), Stage(pkg'.pc)>> \in StageOrder
       \/ Stage(pkg.pc) \in {"Start", "Collected", "Archived"} /\ Stage(pkg'.pc) = "Failed"
       \/ Stage(pkg.pc) \in {"None", "Done", "Failed"} /\ Stage(pkg'.pc) = "Start"
    /\ (Stage(pkg'.pc) = "Archived" /\ Stage(pkg.pc) # "Archived") =>
          /\ pkg.pc = "L42"
          /\ Len(pkg'.hist) = Len(pkg.hist) + 1
          /\ pkg'.hist[Len(pkg'.hist)].tar_dest = pkg'.tar
    /\ (Stage(pkg'.pc) = "Failed" /\ Stage(pkg.pc) \in {"Start", "Collected"}) =>
          /\ pkg'.uploads = 0
          /\ pkg'.opened = 0
          /\ remote' = remote
    /\ Stage(pkg.pc) \in {"Start", "Collected"} => (pkg.uploads = 0 /\ pkg.opened = 0)

\* C14: tar_outputs goes through Start, Collected, Archived, Transferred and
\* Done in this order and through no other transition: upload_tar starts
\* only when make_tar has returned in the same call, and a failure inside
\* make_tar ends the call with no upload attempted.
C14_StagesInOrder == [][C14_Step]_vars

\* a second run to s3:// ended by make_tar's failure on an unreadable member
C14_Witness ==
    /\ pkg.pc = "raised"
    /\ pkg.at = "L38"
    /\ pkg.raised = "PermissionError"
    /\ pkg.output_uri = UriS3
    /\ runs = 2
    /\ pkg.uploads = 0
    /\ pkg.opened = 0
    /\ remote = {}

\* the files named {ipppssoot}.tar.gz in an output directory and in the job's
\* subdirectory of it
ArchivePaths(dir) == {Abs(dir, <<tar_name(Job)>>), Abs(dir, <<Job, tar_name(Job)>>)}

ArchiveCount(F, dir) == Cardinality({p \in ArchivePaths(dir) : IsFile(F, p)})

\* make_tar of the current tar_outputs call has returned
MakeTarReturned ==
    \/ Stage(pkg.pc) \in {"Archived", "Transferred", "Done"}
    \/ pkg.pc = "raised" /\ pkg.at \in UploadLines

\* C15: in every state during make_tar and after it, repeated attempts for
\* the same job included, at most one file named {jobId}.tar.gz exists across
\* the output directory and the job's subdirectory.
C15_OneArchiveAlways ==
    (Stage(pkg.pc) \in {"Collected", "Archived", "Transferred", "Done"}
        \/ (pkg.pc = "raised" /\ pkg.at \in MakeTarLines \cup UploadLines))
        => ArchiveCount(fs, pkg.output_dir) <= 1

\* C15 as the code has it: once make_tar has returned, the top-level archive
\* is gone and at most one file named {jobId}.tar.gz exists, the one in the
\* job's subdirectory, which exists whenever that subdirectory does.
C15_OneArchiveAfterMakeTar ==
    MakeTarReturned =>
        /\ ~exists(fs, Abs(pkg.output_dir, <<tar_name(Job)>>))
        /\ ArchiveCount(fs, pkg.output_dir) <= 1
        /\ IsDir(fs, Abs(pkg.output_dir, <<Job>>)) =>
              /\ ArchiveCount(fs, pkg.output_dir) = 1
              /\ IsFile(fs, Abs(pkg.output_dir, <<Job, tar_name(Job)>>))

\* a repeated attempt in one directory, its make_tar just returned
C15_Witness ==
    /\ pkg.pc = "L47"
    /\ C5_SamePair
    /\ Len(pkg.file_list) = 2
    /\ ArchiveCount(fs, pkg.output_dir) = 1
    /\ fs.files[Abs(pkg.output_dir, <<Job, tar_name(Job)>>)].members = Range(pkg.file_list)

(***************************************************************************)
(* Properties of ProgressPercentage.                                       *)
(***************************************************************************)
RECURSIVE SumTo(_, _)
SumTo(q, n) == IF n = 0 THEN 0 ELSE q[n] + SumTo(q, n - 1)

AllDone == \A t \in Threads : thr[t].pc = "done"

\* C3: with concurrent calls of one instance no increment is lost: once all
\* calls have finished the accumulated count is the sum of the increments,
\* and each percentage written is accumulated/size*100 for the count that a
\* prefix of the calls, in the order the lock serialized them, produced; so
\* increments that sum to the size end at 100%.
C3_NoLostIncrement ==
    /\ AllDone =>
          /\ prog.seen_so_far = SumTo(issued, Len(issued))
          /\ Len(reports) = Len(issued)
          /\ prog.seen_so_far = prog.size =>
                reports[Len(reports)].percentage = 10000
    /\ \A k \in 1 .. Len(reports) :
          /\ reports[k].seen_so_far
                = SumTo([j \in 1 .. k |-> reports[j].bytes_amount], k)
          /\ LET d == reports[k].percentage * prog.size - reports[k].seen_so_far * 10000
             IN 2 * d <= prog.size /\ -2 * d <= prog.size

\* the increments 10, 10 and 5 against 25 bytes, all calls finished
C3_Witness ==
    /\ AllDone
    /\ prog.size = 25
    /\ issued = <<10, 10, 5>>
    /\ reports[Len(reports)].percentage = 10000

====
